---- MODULE Spec2Model ----
(***************************************************************************)
(* State-machine model of YT-Downloader-3.0 (src/main.py): the tool        *)
(* provisioner (SetupWorker), the download runner (DownloadWorker) and the *)
(* window that sequences them (YouTubeDownloaderApp).                      *)
(*                                                                         *)
(* Text is modelled as sequences of one-character strings so that split,   *)
(* strip, replace, int() and float() are computed, not assumed.            *)
(***************************************************************************)
EXTENDS Integers, Sequences, FiniteSets, TLC

\* ------------------------------------------------------------------ bounds
\* Largest number of lines the child process writes in one job.
MaxLines == 2

\* ------------------------------------------------- text helpers (Python str)
None == "None"

Digit == {"0", "1", "2", "3", "4", "5", "6", "7", "8", "9"}

Whitespace == {" ", "\n", "\t"}

DigitVal(c) ==
    CASE c = "0" -> 0 [] c = "1" -> 1 [] c = "2" -> 2 [] c = "3" -> 3
      [] c = "4" -> 4 [] c = "5" -> 5 [] c = "6" -> 6 [] c = "7" -> 7
      [] c = "8" -> 8 [] c = "9" -> 9 [] OTHER -> 0

IsDigits(s) == Len(s) > 0 /\ \A i \in 1..Len(s) : s[i] \in Digit

RECURSIVE DigitsVal(_)
DigitsVal(s) ==
    IF s = <<>> THEN 0
    ELSE DigitsVal(SubSeq(s, 1, Len(s) - 1)) * 10 + DigitVal(s[Len(s)])

RECURSIVE StripZeros(_)
StripZeros(s) ==
    IF s # <<>> /\ s[1] = "0" THEN StripZeros(Tail(s)) ELSE s

HasChar(s, c) == \E i \in 1..Len(s) : s[i] = c

\* index of the first element of s that is in the set cs, 0 if there is none
FirstIn(s, cs) ==
    IF \E i \in 1..Len(s) : s[i] \in cs
    THEN CHOOSE i \in 1..Len(s) : s[i] \in cs /\ \A j \in 1..(i - 1) : s[j] \notin cs
    ELSE 0

\* str.split(): maximal runs of non-whitespace characters, in order
RECURSIVE SplitFrom(_, _, _)
SplitFrom(s, cur, acc) ==
    IF s = <<>> THEN (IF cur = <<>> THEN acc ELSE Append(acc, cur))
    ELSE IF s[1] \in Whitespace
         THEN SplitFrom(Tail(s), <<>>, IF cur = <<>> THEN acc ELSE Append(acc, cur))
         ELSE SplitFrom(Tail(s), Append(cur, s[1]), acc)

split(line) == SplitFrom(line, <<>>, <<>>)

\* str.strip(): drop leading and trailing whitespace
RECURSIVE LStrip(_)
LStrip(s) == IF s # <<>> /\ s[1] \in Whitespace THEN LStrip(Tail(s)) ELSE s

RECURSIVE RStrip(_)
RStrip(s) ==
    IF s # <<>> /\ s[Len(s)] \in Whitespace THEN RStrip(SubSeq(s, 1, Len(s) - 1)) ELSE s

strip(s) == RStrip(LStrip(s))

endswith(part, c) == Len(part) > 0 /\ part[Len(part)] = c

\* part.replace("%", ""): every percent sign is removed, not only the last
RemovePercent(part) == SelectSeq(part, LAMBDA c : c # "%")

\* A double overflows to infinity above about 1.8e308, a number of 309
\* digits; integers of more than 9 digits are exact in Python but do not fit
\* the model's integers and are tagged "big".
Signed(s) == Len(s) > 0 /\ s[1] \in {"+", "-"}

Unsigned(s) == IF Signed(s) THEN Tail(s) ELSE s

Sign(s) == IF Len(s) > 0 /\ s[1] = "-" THEN -1 ELSE 1

\* int(str): optional sign and at least one digit, anything else ValueError
py_int(s) ==
    LET body == Unsigned(s)
    IN  IF ~IsDigits(body) THEN [tag |-> "ValueError", val |-> 0]
        ELSE IF Len(StripZeros(body)) > 9 THEN [tag |-> "big", val |-> 0]
        ELSE [tag |-> "int", val |-> Sign(s) * DigitsVal(body)]

\* int(float(str)): [sign] digits [. digits] [e [sign] digits], truncated
\* toward zero; an overflowing literal is infinity and int(inf) raises
\* OverflowError.
py_int_float(s) ==
    LET body  == Unsigned(s)
        ePos  == FirstIn(body, {"e", "E"})
        mant  == IF ePos = 0 THEN body ELSE SubSeq(body, 1, ePos - 1)
        expo  == IF ePos = 0 THEN <<>> ELSE SubSeq(body, ePos + 1, Len(body))
        dot   == FirstIn(mant, {"."})
        ip    == IF dot = 0 THEN mant ELSE SubSeq(mant, 1, dot - 1)
        fp    == IF dot = 0 THEN <<>> ELSE SubSeq(mant, dot + 1, Len(mant))
        okM   == /\ Len(ip) + Len(fp) > 0
                 /\ \A i \in 1..Len(ip) : ip[i] \in Digit
                 /\ \A i \in 1..Len(fp) : fp[i] \in Digit
        okE   == ePos = 0 \/ IsDigits(Unsigned(expo))
        eMag  == IF ePos = 0 THEN 0
                 ELSE IF Len(StripZeros(Unsigned(expo))) > 4 THEN 10000
                 ELSE DigitsVal(Unsigned(expo))
        e     == IF ePos # 0 /\ Sign(expo) = -1 THEN -eMag ELSE eMag
        all   == ip \o fp
        lead  == Len(all) - Len(StripZeros(all))  \* leading zeros of the digits
        sig   == StripZeros(all)
        \* number of digits left of the decimal point, counted from the
        \* first significant digit
        n     == Len(ip) + e - lead
        whole == IF n >= Len(sig) THEN sig ELSE SubSeq(sig, 1, n)
    IN  IF ~(okM /\ okE) THEN [tag |-> "ValueError", val |-> 0]
        ELSE IF sig = <<>> \/ n <= 0 THEN [tag |-> "int", val |-> 0]
        ELSE IF n > 309 THEN [tag |-> "OverflowError", val |-> 0]
        ELSE IF n > 9 THEN [tag |-> "big", val |-> 0]
        ELSE LET RECURSIVE Pow10(_)
                 Pow10(k) == IF k = 0 THEN 1 ELSE 10 * Pow10(k - 1)
             IN  [tag |-> "int",
                  val |-> Sign(s) * DigitsVal(whole) * Pow10(n - Len(whole))]

\* lines 253-257: progress_str, then int(float(..)) or int(..)
progress_value(part) ==
    LET progress_str == RemovePercent(part)
    IN  IF HasChar(progress_str, ".") THEN py_int_float(progress_str)
        ELSE py_int(progress_str)

\* lines 248-261: what one output line does to the progress bar.
\*   "none"  no progress event        "emit"  one event with value val
\*   "raise" an exception escapes the inner try (only ValueError is caught)
\*   "emit_big" one event whose value is beyond the model's integers
ParseProgress(line) ==
    IF ~HasChar(line, "%") THEN [tag |-> "none", val |-> 0]
    ELSE LET parts == split(line)
             k     == IF \E i \in 1..Len(parts) : endswith(parts[i], "%")
                      THEN CHOOSE i \in 1..Len(parts) :
                               /\ endswith(parts[i], "%")
                               /\ \A j \in 1..(i - 1) : ~endswith(parts[j], "%")
                      ELSE 0
         IN  IF k = 0 THEN [tag |-> "none", val |-> 0]
             ELSE LET r == progress_value(parts[k])
                  IN  CASE r.tag = "ValueError"    -> [tag |-> "none", val |-> 0]
                        [] r.tag = "OverflowError" -> [tag |-> "raise", val |-> 0]
                        [] r.tag = "big"           -> [tag |-> "emit_big", val |-> 0]
                        [] OTHER                   -> [tag |-> "emit", val |-> r.val]

\* --------------------------------------------------------------- platform
Platforms == {"win32", "darwin", "linux"}

VARIABLES
    platform,        \* sys.platform, fixed for the run
    tools,           \* the tools directory on disk
    tools0,          \* the tools directory as it was when the run started
    downloads_dir,   \* TRUE iff the "downloads" directory exists
    downloads0,      \* downloads_dir as it was when the run started
    app_pc,          \* position of YouTubeDownloaderApp.__init__
    ui,              \* widget state of the window
    setup_worker,    \* the SetupWorker thread
    setup_signals,   \* signals the SetupWorker has emitted, in order
    setup_handled,   \* how many of them the window has handled
    fetches,         \* requests.get calls made so far
    setup_starts,    \* calls of start_tool_setup so far
    download_worker, \* the DownloadWorker thread
    produced,        \* lines the child process has written so far
    dl_signals,      \* signals the DownloadWorker has emitted, in order
    dl_handled       \* how many of them the window has handled

vars == <<platform, tools, tools0, downloads_dir, downloads0, app_pc, ui, setup_worker,
          setup_signals, setup_handled, fetches, setup_starts,
          download_worker, produced, dl_signals, dl_handled>>

\* ------------------------------------------------------------- filesystem
\* The tools directory: exists (the directory itself), files (regular files
\* below it, by path relative to it, with their execute bit), scratch (the
\* ffmpeg_temp_extract directory exists) and archive (the downloaded archive
\* file: its fault is "absent" when there is no such file and "partial" when
\* a fetch was cut off while writing it).
temp_extract_dir == <<"ffmpeg_temp_extract">>

File(path, x) == [path |-> path, x |-> x]

IsPrefix(p, q) == Len(p) <= Len(q) /\ SubSeq(q, 1, Len(p)) = p

isfile(files, path) == \E f \in files : f.path = path

isdir(files, path) == \E f \in files : IsPrefix(path, f.path) /\ Len(f.path) > Len(path)

\* os.access(path, os.X_OK): on Windows every existing file passes
access_X_OK(files, path) ==
    \E f \in files : f.path = path /\ (f.x \/ platform = "win32")

\* find_executable returns None when nothing is found: the empty path
NoPath == <<>>

\* lines 19-34
RECURSIVE find_executable(_, _, _)
find_executable(files, name, path_list) ==
    IF path_list = <<>> THEN NoPath
    ELSE LET path          == Head(path_list)
             full_path     == Append(path, name)
             full_path_exe == Append(path, name \o ".exe")
         IN  IF isfile(files, full_path) /\ access_X_OK(files, full_path)
             THEN full_path
             ELSE IF /\ platform = "win32"
                     /\ isfile(files, full_path_exe)
                     /\ access_X_OK(files, full_path_exe)
             THEN full_path_exe
             ELSE find_executable(files, name, Tail(path_list))

\* lines 58-63
yt_dlp_filename == IF platform = "win32" THEN "yt-dlp.exe" ELSE "yt-dlp"

\* lines 82-92
ffmpeg_archive_filename ==
    CASE platform = "win32"  -> "ffmpeg-release-full.zip"
      [] platform = "darwin" -> "ffmpeg-latest.zip"
      [] OTHER               -> "ffmpeg-release-amd64-static.tar.xz"

\* archive_path.endswith('.zip') / endswith('.tar.xz'), lines 172-179
ArchiveFormat(filename) ==
    CASE filename \in {"ffmpeg-release-full.zip", "ffmpeg-latest.zip"} -> "zip"
      [] filename = "ffmpeg-release-amd64-static.tar.xz"               -> "tar.xz"
      [] OTHER                                                         -> "unsupported"

\* ---------------------------------------------------------------- inputs
\* What a server can return for the archive: fault says how the bytes are
\* damaged, tree is what a sound archive unpacks to.
Archive(fault, tree) == [fault |-> fault, tree |-> tree]

NoArchive == Archive("absent", {})

PartialArchive == Archive("partial", {})

SampleArchives ==
    { \* Linux static build: one top-level folder holding both executables
      Archive("none", {File(<<"ffmpeg-7.0-amd64-static", "ffmpeg">>, TRUE),
                       File(<<"ffmpeg-7.0-amd64-static", "ffprobe">>, TRUE),
                       File(<<"ffmpeg-7.0-amd64-static", "readme.txt">>, FALSE)}),
      \* Windows build: one top-level folder with a bin subfolder
      Archive("none", {File(<<"ffmpeg-7.0-full_build", "bin", "ffmpeg.exe">>, FALSE),
                       File(<<"ffmpeg-7.0-full_build", "bin", "ffprobe.exe">>, FALSE),
                       File(<<"ffmpeg-7.0-full_build", "README.txt">>, FALSE)}),
      \* flat archive with both executables
      Archive("none", {File(<<"ffmpeg">>, TRUE), File(<<"ffprobe">>, TRUE)}),
      \* flat archive holding the transcoder only
      Archive("none", {File(<<"ffmpeg">>, TRUE)}),
      \* a file that is not an archive at all (an error page)
      Archive("not_archive", {}),
      \* an archive cut short or damaged inside its compressed stream
      Archive("truncated", {}) }

\* The scratch tree an interrupted earlier run can leave behind.
StaleScratch == {File(temp_extract_dir \o <<"ffmpeg">>, TRUE),
                 File(temp_extract_dir \o <<"ffprobe">>, TRUE),
                 File(temp_extract_dir \o <<"old-build.txt">>, FALSE)}

\* Outcomes of one requests.get + streaming to disk (lines 144-163).
FetchOutcomes == {"ok", "connect_failed", "stream_failed", "open_failed"}

\* ------------------------------------------------------------ exceptions
Exc(type, detail) == [type |-> type, detail |-> detail]

NoExc == Exc(None, None)

\* ---------------------------------------------------------------- signals
StatusSig(text) == [sig |-> "update_status", text |-> text]

ProgressSig(value, text) == [sig |-> "update_progress_bar", value |-> value, text |-> text]

SetupFinishedSig(success, message) ==
    [sig |-> "setup_finished", success |-> success, message |-> message]

DownloadFinishedSig(success, message) ==
    [sig |-> "download_finished", success |-> success, message |-> message]

\* ------------------------------------------------------------ SetupWorker
exists(files, path) == isfile(files, path) \/ isdir(files, path)

\* lines 137-142: the three except clauses of SetupWorker.run
setup_except(exc) ==
    CASE exc.type = "RequestException" ->
             SetupFinishedSig(FALSE, <<"Network error during tool download", exc.detail>>)
      [] exc.type \in {"BadZipFile", "ReadError"} ->
             SetupFinishedSig(FALSE, <<"Archive extraction error", exc.detail>>)
      [] OTHER ->
             SetupFinishedSig(FALSE, <<"An error occurred during tool setup", exc.detail>>)

\* lines 144-163: one fetch.  written says what is left at the destination:
\* "none" (never opened), "partial" (opened, stream broke) or "full".
download_file(outcome, has_length, tool_name) ==
    LET p(v) == ProgressSig(v, <<"Downloading", tool_name, v>>)
    IN  CASE outcome = "connect_failed" ->
                 [exc |-> Exc("RequestException", <<"Failed to download", tool_name>>),
                  signals |-> <<>>, written |-> "none"]
          [] outcome = "open_failed" ->
                 [exc |-> Exc("OSError", <<"open", tool_name>>),
                  signals |-> <<>>, written |-> "none"]
          [] outcome = "stream_failed" ->
                 [exc |-> Exc("RequestException", <<"Failed to download", tool_name>>),
                  signals |-> IF has_length THEN <<p(50)>> ELSE <<>>,
                  written |-> "partial"]
          [] OTHER ->
                 [exc |-> NoExc,
                  signals |-> (IF has_length THEN <<p(50), p(100)>> ELSE <<>>) \o <<p(100)>>,
                  written |-> "full"]

\* The exception the archive library raises on a damaged file: zipfile
\* reports every damage as BadZipFile; tarfile reports a file that is not
\* xz data as ReadError but lets EOFError / LZMAError through when the
\* compressed stream is cut short or damaged further in.
ExtractFault(format, content) ==
    CASE format = "unsupported" -> "ValueError"
      [] content.fault = "absent"  -> "FileNotFoundError"
      [] content.fault = "partial" -> (IF format = "zip" THEN "BadZipFile" ELSE "EOFError")
      [] content.fault = "not_archive" ->
             (IF format = "zip" THEN "BadZipFile" ELSE "ReadError")
      [] content.fault = "truncated" ->
             (IF format = "zip" THEN "BadZipFile" ELSE "EOFError")
      [] OTHER -> None

\* shutil.rmtree(temp_extract_dir)
rmtree_scratch(files) == {f \in files : ~IsPrefix(temp_extract_dir, f.path)}

\* lines 165-186.  zipfile.extractall does not restore permission bits, so
\* files unpacked from a zip carry no execute bit; tarfile restores them.
extract_to_temp_dir(t, archive_filename) ==
    LET format == ArchiveFormat(archive_filename)
        clean  == IF t.scratch THEN rmtree_scratch(t.files) ELSE t.files
        fault  == ExtractFault(format, t.archive)
        tree   == IF fault = None THEN t.archive.tree ELSE {}
        put    == {File(temp_extract_dir \o f.path, IF format = "zip" THEN FALSE ELSE f.x) :
                      f \in tree}
        after  == {f \in clean : ~isfile(put, f.path)} \cup put
        \* os.listdir(temp_extract_path)
        tops   == {f.path[2] : f \in {g \in after : IsPrefix(temp_extract_dir, g.path)}}
        single == /\ Cardinality(tops) = 1
                  /\ \A d \in tops : isdir(after, Append(temp_extract_dir, d))
    IN  [exc   |-> IF fault = None THEN NoExc ELSE Exc(fault, archive_filename),
         files |-> after,
         root  |-> IF single THEN temp_extract_dir \o <<CHOOSE d \in tops : TRUE>>
                   ELSE temp_extract_dir]

\* line 67
NeedsYtDlp(t) == ~exists(t.files, <<yt_dlp_filename>>)

\* Variant of the line-97 check that asks for executables (find_executable)
\* where the code asks only whether the paths exist.
NeedsFfmpeg_by_access(t) ==
    \/ find_executable(t.files, "ffmpeg", <<<<>>>>) = NoPath
    \/ find_executable(t.files, "ffprobe", <<<<>>>>) = NoPath

\* line 97
NeedsFfmpeg(t) == ~exists(t.files, <<"ffmpeg">>) \/ ~exists(t.files, <<"ffprobe">>)

\* shutil.move(src, dst) followed, off Windows, by chmod +x on dst
move_chmod(files, src, dst) ==
    LET f == CHOOSE g \in files : g.path = src
    IN  {g \in files : g.path \notin {src, dst}}
            \cup {File(dst, f.x \/ platform # "win32")}

SetupRunning == setup_worker.pc \notin {"none", "done"}

\* an exception reaches the except clauses: the run ends with one signal
\* (w is the worker as it is when the exception is raised)
SetupRaise(w, exc, sigs) ==
    /\ setup_worker' = [w EXCEPT !.pc = "done"]
    /\ setup_signals' = setup_signals \o sigs \o <<setup_except(exc)>>

\* lines 50-54
SetupBegin ==
    /\ setup_worker.pc = "run"
    /\ tools' = [tools EXCEPT !.exists = TRUE]
    /\ setup_signals' = setup_signals \o
           (IF tools.exists THEN <<>> ELSE <<StatusSig(<<"Created tools directory">>)>>)
    /\ setup_worker' = [setup_worker EXCEPT !.pc = "yt_dlp"]
    /\ UNCHANGED <<platform, tools0, downloads0, downloads_dir, app_pc, ui, setup_handled, fetches,
                   setup_starts, download_worker, produced, dl_signals, dl_handled>>

\* lines 56-74
SetupYtDlp(outcome, has_length) ==
    /\ setup_worker.pc = "yt_dlp"
    /\ IF NeedsYtDlp(tools)
       THEN LET r    == download_file(outcome, has_length, "yt-dlp")
                pre  == <<StatusSig(<<"Downloading", yt_dlp_filename>>)>> \o r.signals
                made == File(<<yt_dlp_filename>>, r.written = "full" /\ platform # "win32")
            IN  /\ fetches' = fetches + 1
                /\ tools' = IF r.written = "none" THEN tools
                            ELSE [tools EXCEPT !.files = @ \cup {made}]
                /\ IF r.exc.type # None
                   THEN SetupRaise([setup_worker EXCEPT !.last_fetch = outcome], r.exc, pre)
                   ELSE /\ setup_signals' = setup_signals \o pre \o
                                <<StatusSig(<<"downloaded.", yt_dlp_filename>>)>>
                        /\ setup_worker' = [setup_worker EXCEPT
                                                !.pc = "ffmpeg", !.last_fetch = outcome]
       ELSE /\ outcome = "ok" /\ has_length
            /\ setup_signals' = Append(setup_signals,
                                       StatusSig(<<"already exists.", yt_dlp_filename>>))
            /\ setup_worker' = [setup_worker EXCEPT !.pc = "ffmpeg"]
            /\ UNCHANGED <<tools, fetches>>
    /\ UNCHANGED <<platform, tools0, downloads0, downloads_dir, app_pc, ui, setup_handled,
                   setup_starts, download_worker, produced, dl_signals, dl_handled>>

\* lines 76-100 and 132-133
SetupFfmpeg(outcome, has_length, content) ==
    /\ setup_worker.pc = "ffmpeg"
    /\ IF NeedsFfmpeg(tools)
       THEN LET r   == download_file(outcome, has_length, "FFmpeg")
                pre == <<StatusSig(<<"Downloading", ffmpeg_archive_filename>>)>> \o r.signals
            IN  /\ fetches' = fetches + 1
                /\ tools' = CASE r.written = "none"    -> tools
                              [] r.written = "partial" -> [tools EXCEPT !.archive = PartialArchive]
                              [] OTHER                 -> [tools EXCEPT !.archive = content]
                /\ IF r.exc.type # None
                   THEN SetupRaise([setup_worker EXCEPT !.last_fetch = outcome], r.exc, pre)
                   ELSE /\ setup_signals' = setup_signals \o pre \o
                                <<StatusSig(<<"Extracting", ffmpeg_archive_filename>>)>>
                        /\ setup_worker' = [setup_worker EXCEPT
                                                !.pc = "extract", !.last_fetch = outcome]
       ELSE /\ outcome = "ok" /\ has_length /\ content = CHOOSE c \in SampleArchives : TRUE
            /\ setup_signals' = Append(setup_signals,
                                       StatusSig(<<"already exist.", "ffmpeg", "ffprobe">>))
            /\ setup_worker' = [setup_worker EXCEPT !.pc = "finish"]
            /\ UNCHANGED <<tools, fetches>>
    /\ UNCHANGED <<platform, tools0, downloads0, downloads_dir, app_pc, ui, setup_handled,
                   setup_starts, download_worker, produced, dl_signals, dl_handled>>

\* lines 102-103
SetupExtract ==
    /\ setup_worker.pc = "extract"
    /\ LET r == extract_to_temp_dir(tools, ffmpeg_archive_filename)
       IN  /\ tools' = [tools EXCEPT !.files = r.files, !.scratch = TRUE]
           /\ IF r.exc.type # None
              THEN SetupRaise(setup_worker, r.exc, <<>>)
              ELSE /\ setup_worker' = [setup_worker EXCEPT
                                           !.pc = "install", !.extracted_root_dir = r.root]
                   /\ UNCHANGED setup_signals
    /\ UNCHANGED <<platform, tools0, downloads0, downloads_dir, app_pc, ui, setup_handled, fetches,
                   setup_starts, download_worker, produced, dl_signals, dl_handled>>

\* Variant of the clean-up that forgets os.remove(temp_archive_path).
cleanup_keeps_archive(t) ==
    [t EXCEPT !.files = IF t.scratch THEN rmtree_scratch(@) ELSE @,
              !.scratch = FALSE]

\* lines 126-131: remove the scratch directory and the archive
cleanup(t) ==
    [t EXCEPT !.files = IF t.scratch THEN rmtree_scratch(@) ELSE @,
              !.scratch = FALSE,
              !.archive = NoArchive]

\* lines 105-131
SetupInstall ==
    /\ setup_worker.pc = "install"
    /\ LET root   == setup_worker.extracted_root_dir
           search_paths_for_exec == <<root, Append(root, "bin")>>
           extracted_ffmpeg_path  == find_executable(tools.files, "ffmpeg", search_paths_for_exec)
           extracted_ffprobe_path == find_executable(tools.files, "ffprobe", search_paths_for_exec)
       IN  IF extracted_ffmpeg_path = NoPath \/ extracted_ffprobe_path = NoPath
           THEN /\ SetupRaise(setup_worker, Exc("Exception",
                                  <<"executables not found after extraction in",
                                    search_paths_for_exec>>), <<>>)
                /\ UNCHANGED tools
           ELSE LET moved == move_chmod(move_chmod(tools.files, extracted_ffmpeg_path,
                                                   <<"ffmpeg">>),
                                        extracted_ffprobe_path, <<"ffprobe">>)
                IN  /\ tools' = cleanup([tools EXCEPT !.files = moved])
                    /\ setup_signals' = setup_signals \o
                         <<StatusSig(<<"extracted and moved.", "ffmpeg", "ffprobe">>)>> \o
                         (IF tools.scratch
                          THEN <<StatusSig(<<"Cleaned up temporary extraction directory">>)>>
                          ELSE <<>>) \o
                         <<StatusSig(<<"Cleaned up", ffmpeg_archive_filename>>)>>
                    /\ setup_worker' = [setup_worker EXCEPT !.pc = "finish"]
    /\ UNCHANGED <<platform, tools0, downloads0, downloads_dir, app_pc, ui, setup_handled, fetches,
                   setup_starts, download_worker, produced, dl_signals, dl_handled>>

\* line 135
SetupFinish ==
    /\ setup_worker.pc = "finish"
    /\ setup_signals' = Append(setup_signals,
                               SetupFinishedSig(TRUE, <<"Tool setup completed successfully!">>))
    /\ setup_worker' = [setup_worker EXCEPT !.pc = "done"]
    /\ UNCHANGED <<platform, tools, tools0, downloads0, downloads_dir, app_pc, ui, setup_handled, fetches,
                   setup_starts, download_worker, produced, dl_signals, dl_handled>>

\* ----------------------------------------------------- window: text inputs
UpperCase == <<"A", "B", "C", "D", "E", "F", "G", "H", "I", "J", "K", "L", "M",
               "N", "O", "P", "Q", "R", "S", "T", "U", "V", "W", "X", "Y", "Z">>

LowerCase == <<"a", "b", "c", "d", "e", "f", "g", "h", "i", "j", "k", "l", "m",
               "n", "o", "p", "q", "r", "s", "t", "u", "v", "w", "x", "y", "z">>

LowerChar(c) ==
    IF \E i \in 1..26 : UpperCase[i] = c
    THEN LowerCase[CHOOSE i \in 1..26 : UpperCase[i] = c]
    ELSE c

\* str.lower()
lower(t) == [i \in 1..Len(t) |-> LowerChar(t[i])]

\* sub in t
contains(t, sub) ==
    \E i \in 1..(Len(t) - Len(sub) + 1) : SubSeq(t, i, i + Len(sub) - 1) = sub

\* line 315: the two entries of format_combo
FormatItems ==
    << <<"B", "e", "s", "t", " ", "(", "V", "i", "d", "e", "o", " ", "&",
         " ", "A", "u", "d", "i", "o", " ", "M", "P", "4", ")">>,
       <<"M", "P", "3", " ", "(", "A", "u", "d", "i", "o", " ", "O", "n",
         "l", "y", ")">> >>

\* texts the user can type into the URL field
SampleUrls == { <<>>, <<" ">>, <<" ", "u", " ">>, <<"v">> }

\* lines 432-436
format_choice_of(selected_format_text) ==
    IF contains(lower(selected_format_text), <<"m", "p", "3">>) THEN "mp3" ELSE "best"

\* ------------------------------------------------- DownloadWorker: inputs
\* lines the child process can write (each ends with its newline)
SampleLines ==
    { <<" ", " ", "1", "2", ".", "5", "%", " ", "o", "f", " ", "1", "0",
        "M", "i", "B", "\n">>,
      <<"d", "o", "n", "e", "\n">>,
      <<"a", "b", "c", "%", " ", "5", "0", "%", "\n">>,
      <<"1", ".", "0", "e", "9", "9", "9", "%", " ", "x", "\n">>,
      <<"1", "0", "0", "%", "\n">>,
      <<"a", "%", "b", " ", "7", "%", "\n">>,
      <<"-", "1", ".", "5", "%", "\n">>,
      <<"3", "%", "4", "%", "\n">> }

\* exit statuses of the child process (negative: killed by a signal)
ExitCodes == {0, 1, -9}

\* format choices handed to a DownloadWorker built directly
SampleFormats == {"mp3", "best", "bestaudio", "137+140"}

\* ---------------------------------------------------------- DownloadWorker
StartingFrom == <<"S", "t", "a", "r", "t", "i", "n", "g", " ", "d", "o", "w", "n", "l", "o", "a", "d", " ", "f", "r", "o", "m", ":", " ">>

SavingTo == <<"S", "a", "v", "i", "n", "g", " ", "t", "o", ":", " ">>

ProgressLineSig(text) == [sig |-> "update_progress", text |-> text]

\* os.path.join(output_path, "%(title)s.%(ext)s")
path_join(a, b) == IF a = "" THEN <<b>> ELSE <<a, b>>

\* Variant of the command construction that falls back to the best-quality
\* selector for a format choice it does not know.
command_of_default_best(w) ==
    << w.yt_dlp_exec,
       "--external-downloader", "aria2c",
       "--external-downloader-args", "-x 16 -s 16 -k 1M",
       "--ffmpeg-location", w.ffmpeg_exec,
       "-o", path_join(w.output_path, "%(title)s.%(ext)s") >>
    \o (IF w.format_choice = "mp3"
        THEN <<"-x", "--audio-format", "mp3", "--audio-quality", "0">>
        ELSE <<"-f", "bestvideo[ext=mp4]+bestaudio[ext=m4a]/best[ext=mp4]/best">>)
    \o << w.url >>

\* lines 216-233
command_of(w) ==
    << w.yt_dlp_exec,
       "--external-downloader", "aria2c",
       "--external-downloader-args", "-x 16 -s 16 -k 1M",
       "--ffmpeg-location", w.ffmpeg_exec,
       "-o", path_join(w.output_path, "%(title)s.%(ext)s") >>
    \o (CASE w.format_choice = "mp3"  ->
                 <<"-x", "--audio-format", "mp3", "--audio-quality", "0">>
          [] w.format_choice = "best" ->
                 <<"-f", "bestvideo[ext=mp4]+bestaudio[ext=m4a]/best[ext=mp4]/best">>
          [] OTHER -> <<"-f", w.format_choice>>)
    \o << w.url >>

\* lines 199-205: DownloadWorker.__init__.  process is the child: "none"
\* before Popen, "running" once spawned, "exited" once wait() has returned;
\* running counts the worker threads started and not yet finished.
DownloadWorker(url, output_path, format_choice, yt_dlp_exec, ffmpeg_exec) ==
    [pc |-> "run", url |-> url, output_path |-> output_path,
     format_choice |-> format_choice, yt_dlp_exec |-> yt_dlp_exec,
     ffmpeg_exec |-> ffmpeg_exec, command |-> <<>>, returncode |-> 0,
     process |-> "none", running |-> 0]

NoDownloadWorker ==
    [DownloadWorker(<<>>, "", "", NoPath, NoPath) EXCEPT !.pc = "none"]

DownloadRunning == download_worker.pc \notin {"none", "done"}

\* Variant of the completion test that takes every status that is not
\* positive for success.
completion_nonpositive(returncode) ==
    IF returncode <= 0
    THEN DownloadFinishedSig(TRUE, <<"Download completed successfully!">>)
    ELSE DownloadFinishedSig(FALSE, <<"Download failed with error code", returncode>>)

\* lines 265-268: the completion signal for an exit status
completion(returncode) ==
    IF returncode = 0
    THEN DownloadFinishedSig(TRUE, <<"Download completed successfully!">>)
    ELSE DownloadFinishedSig(FALSE, <<"Download failed with error code", returncode>>)

\* lines 270-273: the except clauses of DownloadWorker.run
download_except(type) ==
    IF type = "FileNotFoundError"
    THEN DownloadFinishedSig(FALSE, <<"Error: yt-dlp or ffmpeg executable not found">>)
    ELSE DownloadFinishedSig(FALSE, <<"An unexpected error occurred", type>>)

\* subprocess.Popen(command): the exception it raises, None if it starts
popen_fault(w) ==
    CASE w.command[1] = NoPath                   -> "TypeError"
      [] ~isfile(tools.files, w.command[1])      -> "FileNotFoundError"
      [] ~access_X_OK(tools.files, w.command[1]) -> "PermissionError"
      [] OTHER                                   -> None

DownloadRaise_silent(type, sigs) ==
    /\ download_worker' = [download_worker EXCEPT !.pc = "done", !.running = @ - 1]
    /\ dl_signals' = dl_signals \o sigs

DownloadRaise(type, sigs) ==
    /\ download_worker' = [download_worker EXCEPT !.pc = "done", !.running = @ - 1]
    /\ dl_signals' = dl_signals \o sigs \o <<download_except(type)>>

\* lines 211-233
DWBegin ==
    /\ download_worker.pc = "run"
    /\ dl_signals' = dl_signals \o
           << ProgressLineSig(StartingFrom \o download_worker.url \o <<"\n">>),
              ProgressLineSig(SavingTo \o <<download_worker.output_path, "\n">>),
              ProgressSig(0, <<"Downloading...">>) >>
    /\ download_worker' = [download_worker EXCEPT
                              !.pc = "popen", !.command = command_of(download_worker)]
    /\ UNCHANGED <<platform, tools, tools0, downloads0, downloads_dir, app_pc, ui, setup_worker,
                   setup_signals, setup_handled, fetches, setup_starts, produced,
                   dl_handled>>

\* lines 236-243
DWPopen ==
    /\ download_worker.pc = "popen"
    /\ LET fault == popen_fault(download_worker)
       IN  IF fault # None
           THEN DownloadRaise(fault, <<>>)
           ELSE /\ download_worker' = [download_worker EXCEPT
                                         !.pc = "reading", !.process = "running"]
                /\ UNCHANGED dl_signals
    /\ UNCHANGED <<platform, tools, tools0, downloads0, downloads_dir, app_pc, ui, setup_worker,
                   setup_signals, setup_handled, fetches, setup_starts, produced,
                   dl_handled>>

\* lines 245-261: one iteration of the output loop
DWReadLine(line) ==
    /\ download_worker.pc = "reading"
    /\ Len(produced) < MaxLines
    /\ produced' = Append(produced, line)
    /\ LET r == ParseProgress(line)
       IN  CASE r.tag = "raise" ->
                    DownloadRaise("OverflowError", <<ProgressLineSig(line)>>)
             [] r.tag = "emit" ->
                    /\ dl_signals' = dl_signals \o
                           <<ProgressLineSig(line),
                             ProgressSig(r.val, <<"Downloading", r.val>>)>>
                    /\ UNCHANGED download_worker
             [] r.tag = "emit_big" ->
                    /\ dl_signals' = dl_signals \o
                           <<ProgressLineSig(line),
                             ProgressSig(0, <<"Downloading", "big">>)>>
                    /\ UNCHANGED download_worker
             [] OTHER ->
                    /\ dl_signals' = Append(dl_signals, ProgressLineSig(line))
                    /\ UNCHANGED download_worker
    /\ UNCHANGED <<platform, tools, tools0, downloads0, downloads_dir, app_pc, ui, setup_worker,
                   setup_signals, setup_handled, fetches, setup_starts, dl_handled>>

\* lines 263-268: the stream ends, process.wait() returns the exit status
DWWait(returncode) ==
    /\ download_worker.pc = "reading"
    /\ download_worker' = [download_worker EXCEPT
                              !.pc = "done", !.returncode = returncode,
                              !.process = "exited", !.running = @ - 1]
    /\ dl_signals' = Append(dl_signals, completion(returncode))
    /\ UNCHANGED <<platform, tools, tools0, downloads0, downloads_dir, app_pc, ui, setup_worker,
                   setup_signals, setup_handled, fetches, setup_starts, produced,
                   dl_handled>>

\* ------------------------------------------------------------- the window
Bar(value, format) == [value |-> value, format |-> format]

\* lines 292-379: the widgets as init_ui leaves them
InitialUi ==
    [download_button |-> FALSE, url_input |-> TRUE, format_combo |-> TRUE,
     url_text |-> <<>>, format_index |-> 1,
     yt_dlp_exec |-> NoPath, ffmpeg_exec |-> NoPath,
     progress_bar |-> Bar(0, "Initializing..."),
     output_log |-> <<>>]

NoSetupWorker == [pc |-> "none", extracted_root_dir |-> NoPath, last_fetch |-> None]

\* lines 381-396
start_tool_setup ==
    /\ ui' = [ui EXCEPT !.output_log = <<"Checking for required tools (yt-dlp, ffmpeg)...">>,
                        !.download_button = FALSE,
                        !.url_input = FALSE,
                        !.format_combo = FALSE,
                        !.progress_bar = Bar(0, "Setting up tools...")]
    /\ setup_worker' = [pc |-> "run", extracted_root_dir |-> NoPath, last_fetch |-> None]
    /\ setup_starts' = setup_starts + 1

\* lines 277-290: __init__ after init_ui
AppInit ==
    /\ app_pc = "init"
    /\ app_pc' = "running"
    /\ start_tool_setup
    /\ UNCHANGED <<platform, tools, tools0, downloads0, downloads_dir, setup_signals, setup_handled,
                   fetches, download_worker, produced, dl_signals, dl_handled>>

\* Variant of on_tool_setup_finished that enables the controls without
\* looking at the outcome or at the resolved executables.
on_tool_setup_finished_unchecked(success, message) ==
    /\ ui' = [ui EXCEPT
                 !.output_log = Append(@, message),
                 !.yt_dlp_exec = find_executable(tools.files, "yt-dlp", <<<<>>>>),
                 !.ffmpeg_exec = find_executable(tools.files, "ffmpeg", <<<<>>>>),
                 !.download_button = TRUE,
                 !.url_input = TRUE,
                 !.format_combo = TRUE,
                 !.progress_bar = Bar(100, "Tools ready. Enter URL.")]
    /\ UNCHANGED <<setup_worker, setup_starts>>

\* Variant of on_tool_setup_finished that starts the setup again after a
\* failure.
on_tool_setup_finished_retry(success, message) ==
    IF success
    THEN LET yt_dlp_exec == find_executable(tools.files, "yt-dlp", <<<<>>>>)
             ffmpeg_exec == find_executable(tools.files, "ffmpeg", <<<<>>>>)
             found       == yt_dlp_exec # NoPath /\ ffmpeg_exec # NoPath
         IN  /\ ui' = [ui EXCEPT
                          !.output_log = Append(@, message),
                          !.yt_dlp_exec = yt_dlp_exec,
                          !.ffmpeg_exec = ffmpeg_exec,
                          !.download_button = IF found THEN TRUE ELSE @,
                          !.url_input = IF found THEN TRUE ELSE @,
                          !.format_combo = IF found THEN TRUE ELSE @,
                          !.progress_bar = IF found THEN Bar(100, "Tools ready. Enter URL.")
                                           ELSE Bar(0, "Setup Failed!")]
             /\ UNCHANGED <<setup_worker, setup_starts>>
    ELSE start_tool_setup

\* lines 398-423
on_tool_setup_finished(success, message) ==
    /\ IF success
       THEN LET yt_dlp_exec == find_executable(tools.files, "yt-dlp", <<<<>>>>)
                ffmpeg_exec == find_executable(tools.files, "ffmpeg", <<<<>>>>)
                found       == yt_dlp_exec # NoPath /\ ffmpeg_exec # NoPath
            IN  ui' = [ui EXCEPT
                         !.output_log = Append(@, message),
                         !.yt_dlp_exec = yt_dlp_exec,
                         !.ffmpeg_exec = ffmpeg_exec,
                         !.download_button = IF found THEN TRUE ELSE @,
                         !.url_input = IF found THEN TRUE ELSE @,
                         !.format_combo = IF found THEN TRUE ELSE @,
                         !.progress_bar = IF found THEN Bar(100, "Tools ready. Enter URL.")
                                          ELSE Bar(0, "Setup Failed!")]
       ELSE ui' = [ui EXCEPT !.output_log = Append(@, message),
                             !.progress_bar = Bar(0, "Setup Failed!")]
    /\ UNCHANGED <<setup_worker, setup_starts>>

\* the window handles the next queued signal of the SetupWorker
\* (connections of lines 392-395)
HandleSetupSignal ==
    /\ setup_handled < Len(setup_signals)
    /\ setup_handled' = setup_handled + 1
    /\ LET m == setup_signals[setup_handled + 1]
       IN  CASE m.sig = "update_status" ->
                    /\ ui' = [ui EXCEPT !.output_log = Append(@, m.text)]
                    /\ UNCHANGED <<setup_worker, setup_starts>>
             [] m.sig = "update_progress_bar" ->
                    /\ ui' = [ui EXCEPT !.progress_bar = Bar(m.value, m.text)]
                    /\ UNCHANGED <<setup_worker, setup_starts>>
             [] OTHER -> on_tool_setup_finished(m.success, m.message)
    /\ UNCHANGED <<platform, tools, tools0, downloads0, downloads_dir, app_pc, setup_signals, fetches,
                   download_worker, produced, dl_signals, dl_handled>>

\* Variant of start_download that leaves the download button enabled while
\* the job runs.
start_download_button_left_enabled ==
    LET url == strip(ui.url_text)
    IN  IF url = <<>>
        THEN UNCHANGED <<ui, downloads_dir, download_worker, produced, dl_signals,
                         dl_handled>>
        ELSE /\ downloads_dir' = TRUE
             /\ ui' = [ui EXCEPT
                          !.output_log = <<"Starting video download process...">>,
                          !.url_input = FALSE,
                          !.format_combo = FALSE,
                          !.progress_bar = Bar(0, "Downloading video...")]
             /\ download_worker' =
                    [DownloadWorker(url, "downloads",
                                    format_choice_of(FormatItems[ui.format_index]),
                                    ui.yt_dlp_exec, ui.ffmpeg_exec)
                        EXCEPT !.running = download_worker.running + 1]
             /\ produced' = <<>>
             /\ dl_signals' = <<>>
             /\ dl_handled' = 0

\* Variant of start_download that does not create the output folder.
start_download_no_makedirs ==
    LET url == strip(ui.url_text)
    IN  IF url = <<>>
        THEN UNCHANGED <<ui, downloads_dir, download_worker, produced, dl_signals,
                         dl_handled>>
        ELSE /\ UNCHANGED downloads_dir
             /\ ui' = [ui EXCEPT
                          !.output_log = <<"Starting video download process...">>,
                          !.download_button = FALSE,
                          !.url_input = FALSE,
                          !.format_combo = FALSE,
                          !.progress_bar = Bar(0, "Downloading video...")]
             /\ download_worker' =
                    [DownloadWorker(url, "downloads",
                                    format_choice_of(FormatItems[ui.format_index]),
                                    ui.yt_dlp_exec, ui.ffmpeg_exec)
                        EXCEPT !.running = download_worker.running + 1]
             /\ produced' = <<>>
             /\ dl_signals' = <<>>
             /\ dl_handled' = 0

\* lines 425-458
start_download ==
    LET url == strip(ui.url_text)
    IN  IF url = <<>>
        THEN UNCHANGED <<ui, downloads_dir, download_worker, produced, dl_signals,
                         dl_handled>>
        ELSE LET selected_format_text == FormatItems[ui.format_index]
                 format_choice == format_choice_of(selected_format_text)
                 output_folder == "downloads"
             IN  /\ downloads_dir' = TRUE
                 /\ ui' = [ui EXCEPT
                              !.output_log = <<"Starting video download process...">>,
                              !.download_button = FALSE,
                              !.url_input = FALSE,
                              !.format_combo = FALSE,
                              !.progress_bar = Bar(0, "Downloading video...")]
                 /\ download_worker' =
                        [DownloadWorker(url, output_folder, format_choice,
                                        ui.yt_dlp_exec, ui.ffmpeg_exec)
                            EXCEPT !.running = download_worker.running + 1]
                 /\ produced' = <<>>
                 /\ dl_signals' = <<>>
                 /\ dl_handled' = 0

\* line 342: a click reaches start_download only while the button is enabled
UserClickDownload ==
    /\ app_pc = "running"
    /\ ui.download_button
    /\ start_download
    /\ UNCHANGED <<platform, tools, tools0, downloads0, app_pc, setup_worker, setup_signals,
                   setup_handled, fetches, setup_starts>>

\* the user types into the URL field (only an enabled field takes input)
UserEditUrl(text) ==
    /\ app_pc = "running"
    /\ ui.url_input
    /\ ui' = [ui EXCEPT !.url_text = text]
    /\ UNCHANGED <<platform, tools, tools0, downloads0, downloads_dir, app_pc, setup_worker,
                   setup_signals, setup_handled, fetches, setup_starts, download_worker,
                   produced, dl_signals, dl_handled>>

\* the user picks an entry of the format selector
UserSelectFormat(i) ==
    /\ app_pc = "running"
    /\ ui.format_combo
    /\ ui' = [ui EXCEPT !.format_index = i]
    /\ UNCHANGED <<platform, tools, tools0, downloads0, downloads_dir, app_pc, setup_worker,
                   setup_signals, setup_handled, fetches, setup_starts, download_worker,
                   produced, dl_signals, dl_handled>>

\* lines 460-473
on_download_finished(success, message) ==
    ui' = [ui EXCEPT !.download_button = TRUE,
                     !.url_input = TRUE,
                     !.format_combo = TRUE,
                     !.output_log = Append(@, message),
                     !.progress_bar = IF success THEN Bar(100, "Done!")
                                      ELSE Bar(0, "Failed!")]

\* the window handles the next queued signal of the DownloadWorker
\* (connections of lines 454-457)
HandleDownloadSignal ==
    /\ dl_handled < Len(dl_signals)
    /\ dl_handled' = dl_handled + 1
    /\ LET m == dl_signals[dl_handled + 1]
       IN  CASE m.sig = "update_progress" ->
                    ui' = [ui EXCEPT !.output_log = Append(@, m.text)]
             [] m.sig = "update_progress_bar" ->
                    ui' = [ui EXCEPT !.progress_bar = Bar(m.value, m.text)]
             [] OTHER -> on_download_finished(m.success, m.message)
    /\ UNCHANGED <<platform, tools, tools0, downloads0, downloads_dir, app_pc, setup_worker,
                   setup_signals, setup_handled, fetches, setup_starts, download_worker,
                   produced, dl_signals>>

\* ------------------------------------------------------------ initial state
\* States of the tools directory a run can start from: every combination of
\* the three tool files being absent, present without the execute bit (a
\* fetch cut off before chmod) or present and executable, with or without a
\* leftover archive and scratch directory.
ToolFileStates(name) ==
    IF platform = "win32"
    THEN {{}, {File(<<name>>, FALSE)}}
    ELSE {{}, {File(<<name>>, FALSE)}, {File(<<name>>, TRUE)}}

Tools(ex, files, scratch, archive) ==
    [exists |-> ex, files |-> files, scratch |-> scratch, archive |-> archive]

AllToolsStates ==
    {Tools(FALSE, {}, FALSE, NoArchive)} \cup
    { Tools(TRUE, y \cup f \cup p \cup (IF sc THEN StaleScratch ELSE {}), sc, a) :
        y \in ToolFileStates(yt_dlp_filename), f \in ToolFileStates("ffmpeg"),
        p \in ToolFileStates("ffprobe"), sc \in BOOLEAN,
        a \in {NoArchive, PartialArchive} }

\* The states the whole-application specification starts from.
SampleToolsStates ==
    { Tools(FALSE, {}, FALSE, NoArchive),
      Tools(TRUE, {File(<<yt_dlp_filename>>, TRUE), File(<<"ffmpeg">>, TRUE),
                   File(<<"ffprobe">>, TRUE)}, FALSE, NoArchive),
      Tools(TRUE, {File(<<yt_dlp_filename>>, FALSE), File(<<"ffmpeg">>, TRUE),
                   File(<<"ffprobe">>, TRUE)}, FALSE, NoArchive),
      Tools(TRUE, {File(<<yt_dlp_filename>>, TRUE), File(<<"ffmpeg">>, TRUE)} \cup StaleScratch,
            TRUE, PartialArchive) }

InitWith(toolsStates) ==
    /\ platform \in Platforms
    /\ tools \in toolsStates
    /\ tools0 = tools
    /\ downloads_dir \in BOOLEAN
    /\ downloads0 = downloads_dir
    /\ app_pc = "init"
    /\ ui = InitialUi
    /\ setup_worker = NoSetupWorker
    /\ setup_signals = <<>>
    /\ setup_handled = 0
    /\ fetches = 0
    /\ setup_starts = 0
    /\ download_worker = NoDownloadWorker
    /\ produced = <<>>
    /\ dl_signals = <<>>
    /\ dl_handled = 0

\* ------------------------------------------------------------ specifications
SetupStep ==
    \/ SetupBegin
    \/ \E outcome \in FetchOutcomes, has_length \in BOOLEAN : SetupYtDlp(outcome, has_length)
    \/ \E outcome \in FetchOutcomes, has_length \in BOOLEAN, content \in SampleArchives :
           SetupFfmpeg(outcome, has_length, content)
    \/ SetupExtract
    \/ SetupInstall
    \/ SetupFinish

DownloadStep(lines) ==
    \/ DWBegin
    \/ DWPopen
    \/ \E line \in lines : DWReadLine(line)
    \/ \E returncode \in ExitCodes : DWWait(returncode)

\* The lines the child writes in the whole-application specification: one
\* that carries a percentage and one whose percentage overflows.
AppLines == {line \in SampleLines : ParseProgress(line).tag = "raise" \/
                                    ParseProgress(line).val = 12}

\* The whole application: window, provisioner and runner.
Init == InitWith(SampleToolsStates)

Next ==
    \/ AppInit
    \/ SetupStep
    \/ HandleSetupSignal
    \/ \E text \in SampleUrls : UserEditUrl(text)
    \/ \E i \in 1..Len(FormatItems) : UserSelectFormat(i)
    \/ UserClickDownload
    \/ DownloadStep(AppLines)
    \/ HandleDownloadSignal

Spec == Init /\ [][Next]_vars

\* Provisioning from every state of the tools directory.
InitProvision == InitWith(AllToolsStates)

NextProvision == AppInit \/ SetupStep \/ HandleSetupSignal

SpecProvision == InitProvision /\ [][NextProvision]_vars
\* The runner on its own: a DownloadWorker built with any job, also one the
\* window never builds (a literal format selector, a path that is not there).
InitRunner ==
    /\ platform \in Platforms
    /\ tools = Tools(TRUE, {File(<<yt_dlp_filename>>, TRUE), File(<<"ffmpeg">>, TRUE),
                            File(<<"ffprobe">>, TRUE), File(<<"notes.txt">>, FALSE)},
                     FALSE, NoArchive)
    /\ tools0 = tools
    /\ downloads_dir \in BOOLEAN
    /\ downloads0 = downloads_dir
    /\ app_pc = "running"
    /\ ui = [InitialUi EXCEPT !.url_input = FALSE, !.format_combo = FALSE]
    /\ setup_worker = [NoSetupWorker EXCEPT !.pc = "done"]
    /\ setup_signals = <<>>
    /\ setup_handled = 0
    /\ fetches = 0
    /\ setup_starts = 1
    /\ \E url \in {<<"u">>, <<"v", "?", "a", "=", "1">>},
          output_path \in {"downloads", ""},
          format_choice \in SampleFormats,
          yt_dlp_exec \in {<<yt_dlp_filename>>, <<"missing">>, <<"notes.txt">>} :
            download_worker =
                [DownloadWorker(url, output_path, format_choice, yt_dlp_exec, <<"ffmpeg">>)
                    EXCEPT !.running = 1]
    /\ produced = <<>>
    /\ dl_signals = <<>>
    /\ dl_handled = 0

NextRunner == DownloadStep(SampleLines)

SpecRunner == InitRunner /\ [][NextRunner]_vars

\* The two tasks, each on its own run() from start to end: the provisioning
\* run from every state of the tools directory, or a DownloadWorker run with
\* any job while no provisioning run was ever started.
InitTasks ==
    \/ InitProvision
    \/ /\ platform \in Platforms
       /\ tools = Tools(TRUE, {File(<<yt_dlp_filename>>, TRUE), File(<<"ffmpeg">>, TRUE),
                               File(<<"ffprobe">>, TRUE), File(<<"notes.txt">>, FALSE)},
                        FALSE, NoArchive)
       /\ tools0 = tools
       /\ downloads_dir \in BOOLEAN
       /\ downloads0 = downloads_dir
       /\ app_pc = "running"
       /\ ui = [InitialUi EXCEPT !.url_input = FALSE, !.format_combo = FALSE]
       /\ setup_worker = NoSetupWorker
       /\ setup_signals = <<>>
       /\ setup_handled = 0
       /\ fetches = 0
       /\ setup_starts = 0
       /\ \E url \in {<<"u">>, <<"v", "?", "a", "=", "1">>},
             output_path \in {"downloads", ""},
             format_choice \in SampleFormats,
             yt_dlp_exec \in {<<yt_dlp_filename>>, <<"missing">>, <<"notes.txt">>} :
               download_worker =
                   [DownloadWorker(url, output_path, format_choice, yt_dlp_exec, <<"ffmpeg">>)
                       EXCEPT !.running = 1]
       /\ produced = <<>>
       /\ dl_signals = <<>>
       /\ dl_handled = 0

NextTasks == NextProvision \/ NextRunner

SpecTasks == InitTasks /\ [][NextTasks]_vars

\* ================================================================== claims
\* The completion signal of the provisioning run has been handled by the
\* window, and with which outcome.
SetupCompletionHandled ==
    \E i \in 1..setup_handled : setup_signals[i].sig = "setup_finished"

SetupSuccessHandled ==
    \E i \in 1..setup_handled :
        setup_signals[i].sig = "setup_finished" /\ setup_signals[i].success

SetupFailureHandled ==
    \E i \in 1..setup_handled :
        setup_signals[i].sig = "setup_finished" /\ ~setup_signals[i].success

ToolsResolved ==
    /\ find_executable(tools.files, "yt-dlp", <<<<>>>>) # NoPath
    /\ find_executable(tools.files, "ffmpeg", <<<<>>>>) # NoPath

\* C1: provisioning and a download never run at the same time; the download
\* button is enabled, and a download task exists, only after the window has
\* handled a successful completion of provisioning with both executables
\* resolved in the tools directory -- so after a reported failure, or a
\* success with an unresolved executable, the button is never enabled and no
\* download task is ever started.
C1_ProvisioningBeforeDownload ==
    /\ ~(SetupRunning /\ DownloadRunning)
    /\ (ui.download_button \/ download_worker.pc # "none")
           => /\ setup_worker.pc = "done"
              /\ SetupSuccessHandled
              /\ ToolsResolved
    /\ (SetupFailureHandled \/ (SetupSuccessHandled /\ ~ToolsResolved))
           => /\ ~ui.download_button
              /\ download_worker.pc = "none"

\* a download is running after a provisioning run that fetched both tools
C1_Witness ==
    /\ DownloadRunning
    /\ fetches = 2
    /\ setup_worker.pc = "done"

\* a provisioning run that reported success although the downloader cannot
\* be resolved: the button stays disabled
C1_WitnessUnresolved ==
    /\ SetupSuccessHandled
    /\ ~ToolsResolved
    /\ ~ui.download_button

\* The window has handled the completion signal of the current download.
DownloadCompletionHandled ==
    /\ download_worker.pc = "done"
    /\ dl_handled = Len(dl_signals)

DownloadInFlight == download_worker.pc # "none" /\ ~DownloadCompletionHandled

ControlsDisabled == ~ui.download_button /\ ~ui.url_input /\ ~ui.format_combo

ControlsEnabled == ui.download_button /\ ui.url_input /\ ui.format_combo

\* C2: at most one download task is active; from the start of a
\* DownloadWorker until the window has handled its completion signal the
\* button, the URL field and the format selector are all disabled; once the
\* completion is handled they are enabled again, after success and after
\* failure alike.
C2_SingleDownload ==
    /\ download_worker.running <= 1
    /\ DownloadInFlight => ControlsDisabled
    /\ DownloadCompletionHandled => ControlsEnabled

\* a failed job whose completion has been handled: the controls are back
C2_Witness ==
    /\ DownloadCompletionHandled
    /\ ~dl_signals[Len(dl_signals)].success
    /\ ControlsEnabled

\* C3: start_tool_setup runs exactly once per application run: not before
\* the window is built, once at the end of __init__ with the download button
\* still disabled, and never again whatever the outcome of provisioning or of
\* a download.
C3_SetupStartedOnce ==
    /\ app_pc = "init" => (setup_starts = 0 /\ ~ui.download_button)
    /\ app_pc = "running" => setup_starts = 1
    /\ ui.download_button => setup_starts = 1

\* provisioning has failed, the window has handled the failure, and the
\* setup has still been started only once
C3_Witness ==
    /\ SetupFailureHandled
    /\ setup_worker.pc = "done"
    /\ setup_starts = 1

\* The last signal the SetupWorker has emitted.
LastSetupSignal == setup_signals[Len(setup_signals)]

SetupEnded(success) ==
    /\ setup_worker.pc = "done"
    /\ LastSetupSignal.sig = "setup_finished"
    /\ LastSetupSignal.success = success

\* When the run started, the downloader and both transcoder files existed.
AllPresent0 ==
    /\ exists(tools0.files, <<yt_dlp_filename>>)
    /\ exists(tools0.files, <<"ffmpeg">>)
    /\ exists(tools0.files, <<"ffprobe">>)

\* C4: when the downloader file and both transcoder files exist at the start
\* of a provisioning run, the run makes no network fetch and leaves the
\* tools directory as it was, and it ends with exactly three signals: the
\* "already exists" status of the downloader, that of the transcoder pair,
\* and a successful completion.
C4_Idempotence ==
    AllPresent0 =>
        /\ fetches = 0
        /\ tools = tools0
        /\ setup_worker.pc = "done" =>
               /\ Len(setup_signals) = 3
               /\ setup_signals[1].sig = "update_status"
               /\ setup_signals[1].text = <<"already exists.", yt_dlp_filename>>
               /\ setup_signals[2].sig = "update_status"
               /\ setup_signals[2].text = <<"already exist.", "ffmpeg", "ffprobe">>
               /\ setup_signals[3].sig = "setup_finished"
               /\ setup_signals[3].success

\* a finished run over a directory that held all three files, next to a
\* leftover archive and scratch directory
C4_Witness ==
    /\ AllPresent0
    /\ tools0.scratch
    /\ tools0.archive = PartialArchive
    /\ setup_worker.pc = "done"

\* What went wrong in a finished provisioning run, read off its inputs.
NetworkFailed == setup_worker.last_fetch \in {"connect_failed", "stream_failed"}

CorruptArchiveFetched ==
    /\ setup_worker.last_fetch = "ok"
    /\ tools.archive.fault \in {"not_archive", "truncated"}

ExecutablesNotFound ==
    /\ setup_worker.last_fetch = "ok"
    /\ tools.archive.fault = "none"

\* C5: every failure of a provisioning run ends it with a failure outcome: a
\* network failure during a fetch is reported as a network error, a corrupt
\* or unreadable archive as an extraction error, and executables missing
\* after extraction as a generic setup error that names the searched
\* locations.
C5_FailureClassification ==
    setup_worker.pc = "done" =>
        /\ LastSetupSignal.sig = "setup_finished"
        /\ NetworkFailed =>
               /\ ~LastSetupSignal.success
               /\ LastSetupSignal.message[1] = "Network error during tool download"
        /\ CorruptArchiveFetched =>
               /\ ~LastSetupSignal.success
               /\ LastSetupSignal.message[1] = "Archive extraction error"
        /\ ExecutablesNotFound =>
               /\ ~LastSetupSignal.success
               /\ LastSetupSignal.message[1] = "An error occurred during tool setup"
               /\ LastSetupSignal.message[2][1] = "executables not found after extraction in"
               /\ Len(LastSetupSignal.message[2][2]) = 2

\* The part of C5 the code keeps: as C5, with the extraction error promised
\* only for an archive in zip format or a file that is not xz data at all.
C5_ClassificationKept ==
    setup_worker.pc = "done" =>
        /\ LastSetupSignal.sig = "setup_finished"
        /\ NetworkFailed =>
               /\ ~LastSetupSignal.success
               /\ LastSetupSignal.message[1] = "Network error during tool download"
        /\ CorruptArchiveFetched =>
               /\ ~LastSetupSignal.success
               /\ (ArchiveFormat(ffmpeg_archive_filename) = "zip"
                      \/ tools.archive.fault = "not_archive")
                    => LastSetupSignal.message[1] = "Archive extraction error"
        /\ ExecutablesNotFound =>
               /\ ~LastSetupSignal.success
               /\ LastSetupSignal.message[1] = "An error occurred during tool setup"
               /\ LastSetupSignal.message[2][1] = "executables not found after extraction in"
               /\ Len(LastSetupSignal.message[2][2]) = 2

\* The last signal the DownloadWorker has emitted.
LastDownloadSignal == dl_signals[Len(dl_signals)]

\* C6: a DownloadWorker that has read its child's output to the end waits
\* for the exit status and reports success exactly when the status is zero,
\* a failure carrying the status otherwise; when the downloader executable
\* is not there at launch it reports the "executable not found" failure and
\* no child is spawned.
C6_CompletionOutcome ==
    download_worker.pc = "done" =>
        /\ LastDownloadSignal.sig = "download_finished"
        /\ download_worker.process = "exited" =>
               /\ LastDownloadSignal.success <=> download_worker.returncode = 0
               /\ download_worker.returncode # 0 =>
                      /\ LastDownloadSignal.message[1] = "Download failed with error code"
                      /\ LastDownloadSignal.message[2] = download_worker.returncode
        /\ ~isfile(tools.files, download_worker.yt_dlp_exec) =>
               /\ download_worker.process = "none"
               /\ ~LastDownloadSignal.success
               /\ LastDownloadSignal.message[1] =
                      "Error: yt-dlp or ffmpeg executable not found"

\* a child killed by a signal after it wrote some output
C6_Witness ==
    /\ download_worker.pc = "done"
    /\ download_worker.process = "exited"
    /\ download_worker.returncode < 0
    /\ Len(produced) > 0

\* a launch against a path that is not there
C6_WitnessNotFound ==
    /\ download_worker.pc = "done"
    /\ ~isfile(tools.files, download_worker.yt_dlp_exec)

\* The output lines forwarded so far: the update_progress signals after the
\* two header lines of lines 211-212.
Forwarded ==
    LET lines == SelectSeq(dl_signals, LAMBDA m : m.sig = "update_progress")
    IN  [i \in 1..(Len(lines) - 2) |-> lines[i + 2].text]

\* C7: every line the child writes is forwarded verbatim, once and in order,
\* and the completion is reported only after the end of the child's output:
\* no line, whatever its progress parse does, stops the forwarding.
C7_OutputStreaming ==
    download_worker.process # "none" =>
        /\ Forwarded = produced
        /\ download_worker.pc = "done" => download_worker.process = "exited"

\* The part of C7 the code keeps: every line read is forwarded verbatim, once
\* and in order.
C7_ForwardingKept ==
    download_worker.process # "none" => Forwarded = produced

\* C8: the argument list is the downloader path, the flags of the segmented
\* download helper, the transcoder location and the output template under
\* the destination directory, then one format argument set, then the URL as
\* the last argument; "mp3" gives the audio extraction with codec mp3 and
\* quality 0, "best" the MP4-preferring selector, anything else is passed on
\* as the selector.
C8_CommandConstruction ==
    download_worker.pc \notin {"none", "run"} =>
        LET w    == download_worker
            c    == w.command
            n    == Len(c)
            args == SubSeq(c, 10, n - 1)
        IN  /\ n >= 12
            /\ c[1] = w.yt_dlp_exec
            /\ SubSeq(c, 2, 5) = <<"--external-downloader", "aria2c",
                                   "--external-downloader-args", "-x 16 -s 16 -k 1M">>
            /\ c[6] = "--ffmpeg-location"
            /\ c[7] = w.ffmpeg_exec
            /\ c[8] = "-o"
            /\ c[9][Len(c[9])] = "%(title)s.%(ext)s"
            /\ w.output_path # "" => c[9] = <<w.output_path, "%(title)s.%(ext)s">>
            /\ c[n] = w.url
            /\ w.format_choice = "mp3" =>
                   args = <<"-x", "--audio-format", "mp3", "--audio-quality", "0">>
            /\ w.format_choice = "best" =>
                   args = <<"-f", "bestvideo[ext=mp4]+bestaudio[ext=m4a]/best[ext=mp4]/best">>
            /\ w.format_choice \notin {"mp3", "best"} => args = <<"-f", w.format_choice>>

\* a worker built with a literal selector has constructed its command
C8_Witness ==
    /\ download_worker.pc = "reading"
    /\ download_worker.format_choice \notin {"mp3", "best"}

\* A step of DownloadWorker.run.
RunnerStep ==
    /\ download_worker.pc \in {"run", "popen", "reading"}
    /\ download_worker'.pc # download_worker.pc \/ produced' # produced

Missing0 ==
    \/ ~exists(tools0.files, <<"ffmpeg">>)
    \/ ~exists(tools0.files, <<"ffprobe">>)

\* The archive has been fetched completely in this run (line 100 reached).
ExtractingEmitted ==
    \E i \in 1..Len(setup_signals) :
        /\ setup_signals[i].sig = "update_status"
        /\ setup_signals[i].text[1] = "Extracting"

UnderScratch(files) == {f \in files : IsPrefix(temp_extract_dir, f.path)}

\* C10: in a run with the transcoder or the probe missing, the archive is
\* fetched before anything is extracted or installed; if the run ends with
\* success both executables are in the tools directory and neither the
\* scratch directory nor the archive remains; the archive is removed on that
\* path only, so a run that fails after the fetch leaves it in place; and
\* once the extraction has started nothing of an earlier scratch directory
\* is left.
C10_InstallAndCleanup ==
    /\ (Missing0 /\ setup_worker.pc \in {"extract", "install", "finish"})
           => (fetches >= 1 /\ ExtractingEmitted)
    /\ (Missing0 /\ SetupEnded(TRUE))
           => /\ ExtractingEmitted
              /\ isfile(tools.files, <<"ffmpeg">>)
              /\ access_X_OK(tools.files, <<"ffmpeg">>)
              /\ isfile(tools.files, <<"ffprobe">>)
              /\ access_X_OK(tools.files, <<"ffprobe">>)
              /\ ~tools.scratch
              /\ UnderScratch(tools.files) = {}
              /\ tools.archive = NoArchive
    /\ (ExtractingEmitted /\ tools.archive = NoArchive)
           => (setup_worker.pc = "finish" \/ SetupEnded(TRUE))
    /\ (ExtractingEmitted /\ SetupEnded(FALSE))
           => tools.archive.fault \in {"none", "not_archive", "truncated"}
    /\ (ExtractingEmitted /\ (setup_worker.pc = "install" \/ SetupEnded(FALSE)))
           => \A f \in UnderScratch(tools.files) :
                  \E g \in tools.archive.tree : f.path = temp_extract_dir \o g.path

\* a successful install over a directory that held a leftover scratch
\* directory and a leftover archive
C10_Witness ==
    /\ Missing0
    /\ tools0.scratch
    /\ tools0.archive = PartialArchive
    /\ SetupEnded(TRUE)

\* a run that failed after the fetch, with the scratch directory of an
\* earlier run replaced
C10_WitnessFailed ==
    /\ tools0.scratch
    /\ ExtractingEmitted
    /\ SetupEnded(FALSE)

\* What C11 promises for one output line, read off its words: the first
\* whitespace-delimited token that ends in "%", without that final sign,
\* read as a number; an event exactly when it is one, with the number
\* truncated to an integer.
ClaimedProgress(line) ==
    LET parts == split(line)
        ends  == {i \in 1..Len(parts) : endswith(parts[i], "%")}
    IN  IF ~HasChar(line, "%") \/ ends = {} THEN [event |-> FALSE, val |-> 0]
        ELSE LET k      == CHOOSE i \in ends : \A j \in ends : i <= j
                 number == SubSeq(parts[k], 1, Len(parts[k]) - 1)
                 r      == IF HasChar(number, ".") THEN py_int_float(number)
                           ELSE py_int(number)
             IN  [event |-> r.tag # "ValueError", val |-> r.val]

\* The first "%"-terminated token of the line is a number too large for a
\* double, or carries a further "%" inside.
OverflowingToken(line) ==
    /\ ParseProgress(line).tag = "raise"

InnerPercentToken(line) ==
    \E i \in 1..Len(split(line)) :
        /\ endswith(split(line)[i], "%")
        /\ \A j \in 1..(i - 1) : ~endswith(split(line)[j], "%")
        /\ HasChar(SubSeq(split(line)[i], 1, Len(split(line)[i]) - 1), "%")

\* The line read by this step and the signals the step emitted.
ReadsLine == Len(produced') = Len(produced) + 1

LineRead == produced'[Len(produced')]

Emitted == SubSeq(dl_signals', Len(dl_signals) + 1, Len(dl_signals'))

ProgressEmitted == SelectSeq(Emitted, LAMBDA m : m.sig = "update_progress_bar")

\* C11: reading one output line emits at most one progress event; it emits
\* one exactly when the line has a percent sign and its first
\* whitespace-delimited token ending in "%" is a number, with that number
\* truncated to an integer as the value; no line raises an error: the
\* worker goes on reading and reports no completion.
C11_ProgressExtraction ==
    [][ReadsLine =>
          /\ Len(ProgressEmitted) <= 1
          /\ (Len(ProgressEmitted) = 1) <=> ClaimedProgress(LineRead).event
          /\ Len(ProgressEmitted) = 1 =>
                 ProgressEmitted[1].value = ClaimedProgress(LineRead).val
          /\ download_worker'.pc = "reading"
          /\ \A i \in 1..Len(Emitted) : Emitted[i].sig # "download_finished"]_vars

\* The part of C11 the code keeps: the same for every line whose first
\* "%"-terminated token neither overflows a double nor carries a further
\* "%" inside.
C11_ExtractionKept ==
    [][(ReadsLine /\ ~OverflowingToken(LineRead) /\ ~InnerPercentToken(LineRead)) =>
          /\ Len(ProgressEmitted) <= 1
          /\ (Len(ProgressEmitted) = 1) <=> ClaimedProgress(LineRead).event
          /\ Len(ProgressEmitted) = 1 =>
                 ProgressEmitted[1].value = ClaimedProgress(LineRead).val
          /\ download_worker'.pc = "reading"
          /\ \A i \in 1..Len(Emitted) : Emitted[i].sig # "download_finished"]_vars

\* How many completion signals a task has emitted so far.
Completions(signals, name) ==
    Cardinality({i \in 1..Len(signals) : signals[i].sig = name})

\* C12: a provisioning run that has ended has emitted exactly one
\* setup_finished, as its last signal, and one that has not ended has
\* emitted none; the same for a download run and download_finished. Every
\* way a run ends is covered: success, a failure it reports, an exception.
C12_CompletionSignalLast ==
    /\ Completions(setup_signals, "setup_finished") =
           (IF setup_worker.pc = "done" THEN 1 ELSE 0)
    /\ setup_worker.pc = "done" =>
           setup_signals[Len(setup_signals)].sig = "setup_finished"
    /\ Completions(dl_signals, "download_finished") =
           (IF download_worker.pc = "done" THEN 1 ELSE 0)
    /\ download_worker.pc = "done" =>
           dl_signals[Len(dl_signals)].sig = "download_finished"

\* A download run ended by an exception in the middle of the stream, after
\* the line's text was emitted.
C12_Witness ==
    /\ download_worker.pc = "done"
    /\ download_worker.process = "running"
    /\ Len(produced) > 0
    /\ dl_signals[Len(dl_signals)].sig = "download_finished"
    /\ dl_signals[Len(dl_signals) - 1].sig = "update_progress"

\* A provisioning run ended by a failure after status lines, and one ended
\* by success.
C12_WitnessSetupFailed ==
    /\ setup_worker.pc = "done"
    /\ Len(setup_signals) > 1
    /\ ~setup_signals[Len(setup_signals)].success

C12_WitnessSetupSucceeded ==
    /\ setup_worker.pc = "done"
    /\ fetches > 0
    /\ setup_signals[Len(setup_signals)].success

====
